---------------------------- MODULE Spec2Model ----------------------------
(***************************************************************************)
(* A model of the multidns wire codec: the header, label, name, query,     *)
(* resource-record, section and message encoders and decoders, the byte    *)
(* reader they run on, and the message status check.                       *)
(*                                                                         *)
(* Bytes are the naturals 0..255, a buffer is a sequence of bytes and a    *)
(* reader is a buffer with a cursor i (bytes before the cursor: i).        *)
(* Every ReadFrom operator returns a record                                *)
(*     [v, i, n, err, fail]                                                *)
(* v the receiver after the call, i the reader's cursor after the call,    *)
(* n and err the two results of the Go method, and fail a history flag:    *)
(* TRUE when some read performed during the call returned an error,        *)
(* whether or not that error reached the caller.                           *)
(***************************************************************************)
EXTENDS Integers, Sequences, FiniteSets, TLC

VARIABLES
    pc,     \* position of the caller
    m,      \* the Message the caller built (the sender's object)
    data,   \* the bytes written, which the reader then reads
    a,      \* the Message decoded into (the receiver's object)
    d,      \* the Domain decoded into by a direct Domain.ReadFrom
    seek,   \* whether the reader of a direct Domain.ReadFrom is an io.ReadSeeker
    pos,    \* cursor of the reader: where the call started, then where it ended
    n,      \* byte count returned by the last call
    err,    \* error returned by the last call
    log,    \* history of the last decode (record boundaries, failed reads)
    host,   \* the host string given to NewDomain or LookupIP
    ip,     \* the addresses returned by A() or LookupIP
    sock,   \* the datagrams the socket of LookupIP holds, in arrival order
    round   \* the passes of the caller's loop that have ended

vars == <<pc, m, data, a, d, seek, pos, n, err, log, host, ip, sock, round>>

-----------------------------------------------------------------------------
(* Errors.  nil is the absence of an error.  A recursion that never ends    *)
(* does not return: the Go runtime stops the process with a fatal "stack    *)
(* overflow"; a nil Reply whose method is called stops it with a panic.     *)

nil == "nil"
EOF == "EOF"
ErrUnexpectedEOF == "unexpected EOF"
\* a variant of ErrCantSeek: a reader without Seek is no error
CantSeekIgnored == nil
ErrCantSeek == "can't seek trougth reader"
StackOverflow == "fatal: stack overflow"
NilPanic == "panic: nil pointer dereference"

Fatal(e) == e \in {StackOverflow, NilPanic}

\* x := v, then F(x): the result of a call, held in a local and used by the
\* statements that follow
Bind(v, F(_)) == F(v)

-----------------------------------------------------------------------------
(* The byte reader (bytes.Reader, io.ReadFull, encoding/binary).           *)

Min(x, y) == IF x < y THEN x ELSE y

\* x & y, x | y and x &^ y on unsigned integers
RECURSIVE BitAnd(_, _)
BitAnd(x, y) ==
    IF x = 0 \/ y = 0 THEN 0
    ELSE (x % 2) * (y % 2) + 2 * BitAnd(x \div 2, y \div 2)

BitOr(x, y) == x + y - BitAnd(x, y)

AndNot(x, y) == x - BitAnd(x, y)

\* bytes.Reader.Read into a slice of k > 0 bytes
Read(s, i, k) ==
    IF i >= Len(s)
    THEN [b |-> <<>>, i |-> i, err |-> EOF]
    ELSE [b |-> SubSeq(s, i + 1, Min(i + k, Len(s))),
          i |-> Min(i + k, Len(s)), err |-> nil]

\* io.ReadFull into a slice of k bytes
ReadFull(s, i, k) ==
    IF k = 0 THEN [b |-> <<>>, i |-> i, err |-> nil]
    ELSE IF i >= Len(s) THEN [b |-> <<>>, i |-> i, err |-> EOF]
    ELSE IF Len(s) - i < k
         THEN [b |-> SubSeq(s, i + 1, Len(s)), i |-> Len(s),
               err |-> ErrUnexpectedEOF]
         ELSE [b |-> SubSeq(s, i + 1, i + k), i |-> i + k, err |-> nil]

\* io.CopyN(ioutil.Discard, r, k)
CopyN(s, i, k) ==
    IF k = 0 THEN [n |-> 0, i |-> i, err |-> nil]
    ELSE IF i >= Len(s) THEN [n |-> 0, i |-> i, err |-> EOF]
    ELSE IF Len(s) - i < k
         THEN [n |-> Len(s) - i, i |-> Len(s), err |-> EOF]
         ELSE [n |-> k, i |-> i + k, err |-> nil]

BigEndian16(b) == b[1] * 256 + b[2]
BigEndian32(b) == ((b[1] * 256 + b[2]) * 256 + b[3]) * 256 + b[4]
PutUint16(v) == <<(v \div 256) % 256, v % 256>>
PutUint32(v) == <<(v \div 16777216) % 256, (v \div 65536) % 256,
                  (v \div 256) % 256, v % 256>>
\* int16 <-> its two's complement 16 bits
PutInt16(v) == PutUint16((v + 65536) % 65536)
BigEndianInt16(b) ==
    IF BigEndian16(b) >= 32768 THEN BigEndian16(b) - 65536 ELSE BigEndian16(b)

\* binary.Read of a fixed-width big-endian integer of k bytes
ReadUint(s, i, k) ==
    LET x == ReadFull(s, i, k)
    IN  [u |-> IF x.err # nil THEN 0
               ELSE IF k = 2 THEN BigEndian16(x.b) ELSE BigEndian32(x.b),
         i |-> x.i, err |-> x.err]

-----------------------------------------------------------------------------
(* Header.                                                                 *)

QRBit == 128
AABit == 4
TCBit == 2
RDBit == 1
RABit == 128
OFBit == 192

ZeroHeader ==
    [ID |-> 0, IsReply |-> FALSE, Opcode |-> 0, IsAuthoritative |-> FALSE,
     IsTruncated |-> FALSE, IsRecursionDesired |-> FALSE,
     IsRecursionAvailable |-> FALSE, ResponseCode |-> 0,
     QuestionCount |-> 0, AnswerCount |-> 0, AuthorityCount |-> 0,
     AdditionalCount |-> 0]

\* the two control bytes Header.WriteTo packs (uint8 arithmetic)
HeaderControl(h) ==
    LET b0 == (h.Opcode * 8) % 256
        b1 == IF h.IsReply THEN BitOr(b0, QRBit) ELSE b0
        b2 == IF h.IsAuthoritative THEN BitOr(b1, AABit) ELSE b1
        b3 == IF h.IsTruncated THEN BitOr(b2, TCBit) ELSE b2
        b4 == IF h.IsRecursionDesired THEN BitOr(b3, RDBit) ELSE b3
        c0 == h.ResponseCode
        c1 == IF h.IsRecursionAvailable THEN BitOr(c0, RABit) ELSE c0
    IN  <<b4, c1>>

HeaderWriteTo(h) ==
    PutUint16(h.ID) \o HeaderControl(h) \o PutUint16(h.QuestionCount)
        \o PutUint16(h.AnswerCount) \o PutUint16(h.AuthorityCount)
        \o PutUint16(h.AdditionalCount)

\* h.ResponseCode = b[1] &^ RABit
ResponseCodeOf(c) == AndNot(c, RABit)

\* a variant of OpcodeOf that shifts without clearing the reply bit
OpcodeOfUnmasked(b) == b \div 8

\* h.Opcode = b[0] &^ QRBit >> 3
OpcodeOf(b) == AndNot(b, QRBit) \div 8

\* the flag and code assignments of Header.ReadFrom from control bytes b:
\* a flag is set when its bit is set and is left alone otherwise
HeaderFlags(h, b) ==
    [h EXCEPT
        !.IsReply = IF BitAnd(b[1], QRBit) = QRBit THEN TRUE ELSE @,
        !.IsAuthoritative = IF BitAnd(b[1], AABit) = AABit THEN TRUE ELSE @,
        !.IsTruncated = IF BitAnd(b[1], TCBit) = TCBit THEN TRUE ELSE @,
        !.IsRecursionDesired = IF BitAnd(b[1], RDBit) = RDBit THEN TRUE ELSE @,
        !.IsRecursionAvailable = IF BitAnd(b[2], RABit) = RABit THEN TRUE ELSE @,
        !.Opcode = OpcodeOf(b[1]),
        !.ResponseCode = ResponseCodeOf(b[2])]

\* b := []byte{0, 0}; r.Read(b): the bytes not read stay 0
Pad2(b) == IF Len(b) = 2 THEN b ELSE IF Len(b) = 1 THEN <<b[1], 0>> ELSE <<0, 0>>

HeaderReadFrom(h, s, i) ==
    Bind(ReadUint(s, i, 2), LAMBDA id :
    Bind(Read(s, id.i, 2), LAMBDA ct :    \* its error is overwritten below
    Bind(ReadUint(s, ct.i, 2), LAMBDA qd :
    Bind(ReadUint(s, qd.i, 2), LAMBDA an :
    Bind(ReadUint(s, an.i, 2), LAMBDA ns :
    Bind(ReadUint(s, ns.i, 2), LAMBDA ar :
    LET h1 == HeaderFlags([h EXCEPT !.ID = id.u], Pad2(ct.b))
        h2 == [h1 EXCEPT !.QuestionCount = qd.u]
        h3 == [h2 EXCEPT !.AnswerCount = an.u]
        h4 == [h3 EXCEPT !.AuthorityCount = ns.u]
        h5 == [h4 EXCEPT !.AdditionalCount = ar.u]
    IN  IF id.err # nil
        THEN [v |-> h, i |-> id.i, n |-> 0, err |-> id.err, fail |-> TRUE]
        ELSE IF qd.err # nil
        THEN [v |-> h1, i |-> qd.i, n |-> 0, err |-> qd.err, fail |-> TRUE]
        ELSE IF an.err # nil
        THEN [v |-> h2, i |-> an.i, n |-> 0, err |-> an.err, fail |-> TRUE]
        ELSE IF ns.err # nil
        THEN [v |-> h3, i |-> ns.i, n |-> 0, err |-> ns.err, fail |-> TRUE]
        ELSE IF ar.err # nil
        THEN [v |-> h4, i |-> ar.i, n |-> 0, err |-> ar.err, fail |-> TRUE]
        ELSE [v |-> h5, i |-> ar.i, n |-> 12, err |-> nil,
              fail |-> ct.err # nil]))))))

-----------------------------------------------------------------------------
(* Label and Domain.                                                       *)

Label(length, name) == [Length |-> length, Name |-> name]

ZeroLabel == Label(0, <<>>)

LabelReadFrom(s, i) ==
    LET x == Read(s, i, 1)
    IN  IF x.err # nil
        THEN [v |-> ZeroLabel, i |-> x.i, n |-> 0, err |-> x.err]
        ELSE IF BitAnd(x.b[1], OFBit) = OFBit
        THEN LET y == Read(s, x.i, 1)
             IN  IF y.err # nil
                 THEN [v |-> Label(x.b[1], <<>>), i |-> y.i, n |-> 1,
                       err |-> y.err]
                 ELSE [v |-> Label(x.b[1], y.b), i |-> y.i, n |-> 2,
                       err |-> nil]
        ELSE LET z == ReadFull(s, x.i, x.b[1])
             IN  IF z.err # nil
                 THEN [v |-> Label(x.b[1], z.b), i |-> z.i, n |-> 1,
                       err |-> z.err]
                 ELSE [v |-> Label(x.b[1], z.b), i |-> z.i,
                       n |-> 1 + Len(z.b), err |-> nil]

LabelWriteTo(l) == <<l.Length>> \o l.Name

Offset(l) ==
    IF BitAnd(l.Length, OFBit) = OFBit
    THEN BitOr(AndNot(l.Length, OFBit) * 256, l.Name[1])
    ELSE 0

\* Domain.ReadFrom with receiver dom, on reader (s, i); sk: the reader is an
\* io.ReadSeeker; seen: the cursors at which the enclosing Domain.ReadFrom
\* calls started.  What a call does to the reader depends on its cursor
\* alone, so a call that starts where an enclosing call started repeats it
\* without end: the recursion has no guard and the stack overflows.
RECURSIVE DomainReadFrom(_, _, _, _, _)
DomainReadFrom(dom, s, i, sk, seen) ==
    Bind(LabelReadFrom(s, i), LAMBDA l :
    LET o == Offset(l.v)
    IN  IF i \in seen
        THEN [v |-> dom, i |-> i, n |-> 0, err |-> StackOverflow,
              fail |-> FALSE]
        ELSE IF l.err # nil
        THEN [v |-> dom, i |-> l.i, n |-> l.n, err |-> l.err, fail |-> TRUE]
        ELSE IF o # 0
        THEN IF sk
             THEN Bind(DomainReadFrom(dom, s, o, sk, seen \cup {i}),
                       LAMBDA sub :
                      IF Fatal(sub.err)
                      THEN sub
                      \* the deferred Seek(i, io.SeekStart) assigns err last
                      ELSE [v |-> sub.v, i |-> l.i, n |-> l.n, err |-> nil,
                            fail |-> sub.fail])
             ELSE [v |-> dom, i |-> l.i, n |-> l.n, err |-> ErrCantSeek,
                   fail |-> FALSE]
        ELSE IF l.v.Length = 0
        THEN [v |-> Append(dom, l.v), i |-> l.i, n |-> l.n, err |-> nil,
              fail |-> FALSE]
        ELSE Bind(DomainReadFrom(Append(dom, l.v), s, l.i, sk,
                                 seen \cup {i}),
                  LAMBDA sub :
                 IF sub.err # nil
                 THEN [sub EXCEPT !.n = l.n]
                 ELSE [sub EXCEPT !.n = l.n + sub.n]))

RECURSIVE DomainWriteTo(_)
DomainWriteTo(dom) ==
    IF dom = <<>> THEN <<>>
    ELSE LabelWriteTo(Head(dom)) \o DomainWriteTo(Tail(dom))

\* Domain.Name
RECURSIVE Name(_)
Name(dom) == IF dom = <<>> THEN <<>> ELSE <<Head(dom).Name>> \o Name(Tail(dom))

-----------------------------------------------------------------------------
(* Query and the ResourceRecord prefix.                                    *)

TypeA == 1
TypeNS == 2
TypeMD == 3
TypeMF == 4
TypeCNAME == 5
TypeSOA == 6
TypeMB == 7
TypeMG == 8
TypeMR == 9
TypePTR == 12
TypeHINFO == 13
TypeMINFO == 14
TypeMX == 15
TypeTXT == 16
TypeAAAA == 28
ClassIN == 1

NewQuery(domain, typo, class) ==
    [Domain |-> domain, Type |-> typo, Class |-> class]

ZeroQuery == NewQuery(<<>>, 0, 0)

QueryReadFrom(q, s, i) ==
    Bind(DomainReadFrom(q.Domain, s, i, TRUE, {}), LAMBDA dm :
    Bind(ReadUint(s, dm.i, 2), LAMBDA ty :
    Bind(ReadUint(s, ty.i, 2), LAMBDA cl :
    LET q1 == [q EXCEPT !.Domain = dm.v]
        q2 == [q1 EXCEPT !.Type = ty.u]
    IN  IF dm.err # nil
        THEN [v |-> q1, i |-> dm.i, n |-> dm.n, err |-> dm.err,
              fail |-> dm.fail]
        ELSE IF ty.err # nil
        THEN [v |-> q1, i |-> ty.i, n |-> dm.n, err |-> ty.err, fail |-> TRUE]
        ELSE IF cl.err # nil
        THEN [v |-> q2, i |-> cl.i, n |-> dm.n, err |-> cl.err, fail |-> TRUE]
        ELSE [v |-> [q2 EXCEPT !.Class = cl.u], i |-> cl.i, n |-> dm.n + 4,
              err |-> nil, fail |-> dm.fail])))

QueryWriteTo(q) == DomainWriteTo(q.Domain) \o PutUint16(q.Type) \o PutUint16(q.Class)

\* the common prefix: the embedded Query, TimeToLive and Length
ZeroResourceRecord ==
    [Domain |-> <<>>, Type |-> 0, Class |-> 0, TimeToLive |-> 0, Length |-> 0]

ResourceRecordReadFrom(rr, s, i) ==
    Bind(QueryReadFrom(NewQuery(rr.Domain, rr.Type, rr.Class), s, i),
         LAMBDA q :
    Bind(ReadUint(s, q.i, 4), LAMBDA tl :
    Bind(ReadUint(s, tl.i, 2), LAMBDA ln :
    LET r1 == [rr EXCEPT !.Domain = q.v.Domain, !.Type = q.v.Type,
                         !.Class = q.v.Class]
        r2 == [r1 EXCEPT !.TimeToLive = tl.u]
    IN  IF q.err # nil
        THEN [v |-> r1, i |-> q.i, n |-> q.n, err |-> q.err, fail |-> q.fail]
        ELSE IF tl.err # nil
        THEN [v |-> r1, i |-> tl.i, n |-> q.n, err |-> tl.err, fail |-> TRUE]
        ELSE IF ln.err # nil
        THEN [v |-> r2, i |-> ln.i, n |-> q.n, err |-> ln.err, fail |-> TRUE]
        ELSE [v |-> [r2 EXCEPT !.Length = ln.u], i |-> ln.i, n |-> q.n + 6,
              err |-> nil, fail |-> q.fail])))

ResourceRecordWriteTo(rr) ==
    QueryWriteTo(NewQuery(rr.Domain, rr.Type, rr.Class))
        \o PutUint32(rr.TimeToLive) \o PutUint16(rr.Length)

-----------------------------------------------------------------------------
(* Record variants.  A Reply is a record [kind, ResourceRecord, payload     *)
(* fields]; NilReply is the nil interface value of a Section entry.        *)

NilReply == [kind |-> "nil"]

ZeroIPv4 == <<0, 0, 0, 0>>
ZeroIPv6 == <<0, 0, 0, 0, 0, 0, 0, 0, 0, 0, 0, 0, 0, 0, 0, 0>>

DomainKinds == {"NS", "CNAME", "PTR", "TXT", "MB", "MD", "MF", "MG", "MR"}

\* the Domain field of the single-name variants
DomainField(kind) ==
    CASE kind = "NS" -> "Authoritative"
      [] kind = "CNAME" -> "Canonical"
      [] kind = "PTR" -> "Location"
      [] kind = "TXT" -> "Text"
      [] kind \in {"MB", "MD", "MF"} -> "Host"
      [] kind \in {"MG", "MR"} -> "Mailbox"

\* &ResourceRecordX{ResourceRecord: rr}: the variant with a zero payload
NewReply(kind, rr) ==
    CASE kind = "A" -> [kind |-> kind, ResourceRecord |-> rr, IP |-> ZeroIPv4]
      [] kind = "AAAA" -> [kind |-> kind, ResourceRecord |-> rr, IP |-> ZeroIPv6]
      [] kind = "SOA" ->
            [kind |-> kind, ResourceRecord |-> rr, Original |-> <<>>,
             Mailbox |-> <<>>, Serial |-> 0, Refresh |-> 0, Retry |-> 0,
             Expire |-> 0, Minimum |-> 0]
      [] kind = "MX" ->
            [kind |-> kind, ResourceRecord |-> rr, Preference |-> 0,
             Exchange |-> <<>>]
      [] kind = "HINFO" ->
            [kind |-> kind, ResourceRecord |-> rr, CPU |-> ZeroLabel,
             OS |-> ZeroLabel]
      [] kind = "MINFO" ->
            [kind |-> kind, ResourceRecord |-> rr, ResponsibleMailbox |-> <<>>,
             ErrorMailbox |-> <<>>]
      [] kind = "NS" ->
            [kind |-> kind, ResourceRecord |-> rr, Authoritative |-> <<>>]
      [] kind = "CNAME" ->
            [kind |-> kind, ResourceRecord |-> rr, Canonical |-> <<>>]
      [] kind = "PTR" ->
            [kind |-> kind, ResourceRecord |-> rr, Location |-> <<>>]
      [] kind = "TXT" ->
            [kind |-> kind, ResourceRecord |-> rr, Text |-> <<>>]
      [] kind \in {"MB", "MD", "MF"} ->
            [kind |-> kind, ResourceRecord |-> rr, Host |-> <<>>]
      [] kind \in {"MG", "MR"} ->
            [kind |-> kind, ResourceRecord |-> rr, Mailbox |-> <<>>]

\* the switch rr.Type of Section.ReadFrom: the variant built for a type tag,
\* "default" for the default branch
Dispatch(type) ==
    CASE type = TypeA -> "A"
      [] type = TypeNS -> "NS"
      [] type = TypeCNAME -> "CNAME"
      [] type = TypeSOA -> "SOA"
      [] type = TypePTR -> "PTR"
      [] type = TypeMX -> "MX"
      [] type = TypeTXT -> "TXT"
      [] type = TypeAAAA -> "AAAA"
      [] OTHER -> "default"

\* a variant of SkipPayload that leaves the payload unread
SkipNothing(rr, s, i) == CopyN(s, i, 0)

\* the default branch: io.CopyN(ioutil.Discard, r, int64(rr.Length))
SkipPayload(rr, s, i) == CopyN(s, i, rr.Length)

\* the number of entries of the Section literal a variant's ReadFrom builds
\* (0: the variant's ReadFrom does not go through Section.ReadFrom)
ReadFromEntries(kind) ==
    CASE kind = "SOA" -> 7
      [] kind \in {"MX", "HINFO", "MINFO"} -> 2
      [] OTHER -> 0

RECURSIVE SectionReadFrom(_, _, _)

\* rec.ReadFrom(r): the payload decoder of a variant
ReplyReadFrom(rec, s, i) ==
    IF rec.kind \in {"A", "AAAA"}
    THEN LET k == IF rec.kind = "A" THEN 4 ELSE 16
             x == ReadFull(s, i, k)
         IN  [v |-> IF x.err = nil THEN [rec EXCEPT !.IP = x.b] ELSE rec,
              i |-> x.i, n |-> k, err |-> x.err, fail |-> x.err # nil]
    ELSE IF rec.kind \in DomainKinds
    THEN Bind(DomainReadFrom(rec[DomainField(rec.kind)], s, i, TRUE, {}),
              LAMBDA x :
             [v |-> [rec EXCEPT ![DomainField(rec.kind)] = x.v],
              i |-> x.i, n |-> x.n, err |-> x.err, fail |-> x.fail])
    ELSE \* Section{&rr.X, ...}.ReadFrom(r): decodes that many resource
         \* records into the entries of the literal; the fields stay as they are
         Bind(SectionReadFrom(
                  [j \in 1..ReadFromEntries(rec.kind) |-> NilReply], s, i),
              LAMBDA x :
             [v |-> rec, i |-> x.i, n |-> x.n, err |-> x.err, fail |-> x.fail])

\* one pass of the loop of Section.ReadFrom, on entry old
EntryReadFrom(old, s, i) ==
    Bind(ResourceRecordReadFrom(ZeroResourceRecord, s, i), LAMBDA p :
    Bind(Dispatch(p.v.Type), LAMBDA k :
    Bind(SkipPayload(p.v, s, p.i), LAMBDA sk :
    Bind(ReplyReadFrom(NewReply(k, p.v), s, p.i), LAMBDA x :
    LET lg == [start |-> i, body |-> p.i, Type |-> p.v.Type,
               Length |-> p.v.Length, prefix |-> p.err, skipped |-> FALSE,
               end |-> p.i, err |-> p.err]
    IN  IF p.err # nil
        THEN [v |-> old, i |-> p.i, n |-> 0, err |-> p.err, fail |-> p.fail,
              log |-> lg]
        ELSE IF k = "default"
        THEN [v |-> old, i |-> sk.i, err |-> sk.err,
              n |-> IF sk.err # nil THEN p.n ELSE p.n + sk.n,
              fail |-> p.fail \/ sk.err # nil,
              log |-> [lg EXCEPT !.skipped = TRUE, !.end = sk.i,
                                 !.err = sk.err]]
        ELSE [v |-> x.v, i |-> x.i, err |-> x.err,
              n |-> IF x.err # nil THEN p.n ELSE p.n + x.n,
              fail |-> p.fail \/ x.fail,
              log |-> [lg EXCEPT !.end = x.i, !.err = x.err]]))))

\* Section.ReadFrom on the entries sec
SectionReadFrom(sec, s, i) ==
    IF sec = <<>>
    THEN [v |-> <<>>, i |-> i, n |-> 0, err |-> nil, fail |-> FALSE,
          log |-> <<>>]
    ELSE Bind(EntryReadFrom(Head(sec), s, i), LAMBDA e :
             IF e.err # nil
             THEN [v |-> <<e.v>> \o Tail(sec), i |-> e.i, n |-> e.n,
                   err |-> e.err, fail |-> e.fail, log |-> <<e.log>>]
             ELSE Bind(SectionReadFrom(Tail(sec), s, e.i), LAMBDA rest :
                      [v |-> <<e.v>> \o rest.v, i |-> rest.i,
                       n |-> e.n + rest.n, err |-> rest.err,
                       fail |-> e.fail \/ rest.fail,
                       log |-> <<e.log>> \o rest.log]))

-----------------------------------------------------------------------------
(* Encoding.                                                               *)

\* rec.WriteTo(w) of a variant: the prefix, then the payload fields in order
ReplyWriteTo(rec) ==
    ResourceRecordWriteTo(rec.ResourceRecord) \o
    CASE rec.kind \in {"A", "AAAA"} -> rec.IP
      [] rec.kind \in DomainKinds -> DomainWriteTo(rec[DomainField(rec.kind)])
      [] rec.kind = "SOA" ->
            DomainWriteTo(rec.Original) \o DomainWriteTo(rec.Mailbox)
                \o PutUint32(rec.Serial) \o PutUint32(rec.Refresh)
                \o PutUint32(rec.Retry) \o PutUint32(rec.Expire)
                \o PutUint32(rec.Minimum)
      [] rec.kind = "MX" ->
            PutInt16(rec.Preference) \o DomainWriteTo(rec.Exchange)
      [] rec.kind = "HINFO" -> LabelWriteTo(rec.CPU) \o LabelWriteTo(rec.OS)
      [] rec.kind = "MINFO" ->
            DomainWriteTo(rec.ResponsibleMailbox)
                \o DomainWriteTo(rec.ErrorMailbox)

RECURSIVE QuestionWriteTo(_)
QuestionWriteTo(q) ==
    IF q = <<>> THEN <<>> ELSE QueryWriteTo(Head(q)) \o QuestionWriteTo(Tail(q))

\* Section.WriteTo: [b: the bytes written, err]; calling WriteTo on a nil
\* entry panics
RECURSIVE SectionWriteTo(_)
SectionWriteTo(sec) ==
    IF sec = <<>> THEN [b |-> <<>>, err |-> nil]
    ELSE IF Head(sec) = NilReply THEN [b |-> <<>>, err |-> NilPanic]
    ELSE LET rest == SectionWriteTo(Tail(sec))
         IN  [b |-> ReplyWriteTo(Head(sec)) \o rest.b, err |-> rest.err]

-----------------------------------------------------------------------------
(* Message.                                                                *)

\* Message{}: the zero value
ZeroMessage ==
    [Header |-> ZeroHeader, Question |-> <<>>, Answer |-> <<>>,
     Authority |-> <<>>, Additional |-> <<>>]

RECURSIVE QuestionReadFrom(_, _, _)
QuestionReadFrom(q, s, i) ==
    IF q = <<>>
    THEN [v |-> <<>>, i |-> i, n |-> 0, err |-> nil, fail |-> FALSE]
    ELSE Bind(QueryReadFrom(Head(q), s, i), LAMBDA e :
             IF e.err # nil
             THEN [v |-> <<e.v>> \o Tail(q), i |-> e.i, n |-> 0,
                   err |-> e.err, fail |-> e.fail]
             ELSE Bind(QuestionReadFrom(Tail(q), s, e.i), LAMBDA rest :
                      [v |-> <<e.v>> \o rest.v, i |-> rest.i,
                       n |-> e.n + rest.n, err |-> rest.err,
                       fail |-> e.fail \/ rest.fail]))

\* make([]Reply, count), make([]Query, count)
MakeReplies(count) == [j \in 1..count |-> NilReply]
MakeQueries(count) == [j \in 1..count |-> ZeroQuery]

\* Message.ReadFrom with receiver msg; log: per section, the records read
MessageReadFrom(msg, s, i) ==
    Bind(HeaderReadFrom(msg.Header, s, i), LAMBDA h :
    Bind(QuestionReadFrom(MakeQueries(h.v.QuestionCount), s, h.i), LAMBDA q :
    Bind(SectionReadFrom(MakeReplies(h.v.AnswerCount), s, q.i), LAMBDA an :
    Bind(SectionReadFrom(MakeReplies(h.v.AuthorityCount), s, an.i),
         LAMBDA ns :
    Bind(SectionReadFrom(MakeReplies(h.v.AdditionalCount), s, ns.i),
         LAMBDA ar :
    LET m0 == [msg EXCEPT !.Header = h.v]
        m1 == [m0 EXCEPT !.Question = q.v]
        m2 == [m1 EXCEPT !.Answer = an.v]
        m3 == [m2 EXCEPT !.Authority = ns.v]
        m4 == [m3 EXCEPT !.Additional = ar.v]
    IN  IF h.err # nil
        THEN [v |-> m0, i |-> h.i, n |-> 0, err |-> h.err, fail |-> TRUE,
              log |-> <<>>]
        ELSE IF q.err # nil
        THEN [v |-> m1, i |-> q.i, n |-> h.n, err |-> q.err,
              fail |-> q.fail, log |-> <<>>]
        ELSE IF an.err # nil
        THEN [v |-> m2, i |-> an.i, n |-> h.n + q.n, err |-> an.err,
              fail |-> q.fail \/ an.fail, log |-> <<an.log>>]
        ELSE IF ns.err # nil
        THEN [v |-> m3, i |-> ns.i, n |-> h.n + q.n + an.n, err |-> ns.err,
              fail |-> q.fail \/ an.fail \/ ns.fail,
              log |-> <<an.log, ns.log>>]
        ELSE [v |-> m4, i |-> ar.i, err |-> ar.err,
              n |-> IF ar.err # nil THEN h.n + q.n + an.n + ns.n
                    ELSE h.n + q.n + an.n + ns.n + ar.n,
              fail |-> q.fail \/ an.fail \/ ns.fail \/ ar.fail,
              log |-> <<an.log, ns.log, ar.log>>])))))

\* Message.WriteTo: header, questions, answer, authority, additional
MessageWriteTo(msg) ==
    Bind(SectionWriteTo(msg.Answer), LAMBDA an :
    Bind(SectionWriteTo(msg.Authority), LAMBDA ns :
    Bind(SectionWriteTo(msg.Additional), LAMBDA ar :
        IF an.err # nil \/ ns.err # nil \/ ar.err # nil
        THEN [b |-> <<>>, err |-> NilPanic]
        ELSE [b |-> HeaderWriteTo(msg.Header) \o QuestionWriteTo(msg.Question)
                        \o an.b \o ns.b \o ar.b,
              err |-> nil])))

\* var errors: the status error of a response code; a code that is no key
\* of the map gives nil
errors(code) ==
    CASE code = 1 -> "the name server was unable to interpret the query"
      [] code = 2 -> "the name server was unable to process this query"
      [] code = 3 -> "the domain name referenced in the query does not exist"
      [] code = 4 -> "the name server does not support the requested query"
      [] code = 5 -> "the name server refuses to perform the specified operation"
      [] OTHER -> nil

\* Message.Error
Error(msg) == errors(msg.Header.ResponseCode)

\* Message.MarshalBinary
MarshalBinary(msg) == MessageWriteTo(msg)

\* Message.UnmarshalBinary with receiver msg; read: the error of
\* Message.ReadFrom, before the status check
UnmarshalBinary(msg, b) ==
    Bind(MessageReadFrom(msg, b, 0), LAMBDA x :
        [v |-> x.v, i |-> x.i, n |-> x.n, fail |-> x.fail, log |-> x.log,
         read |-> x.err,
         err |-> IF x.err = nil THEN Error(x.v) ELSE x.err])

\* Message.Section
Section(msg) == <<msg.Answer, msg.Authority, msg.Additional>>

\* a variant of SectionA that looks at the first entry only
SectionAFirst(sec) ==
    IF sec # <<>> /\ sec[1].kind \in {"A", "AAAA"} THEN <<sec[1].IP>> ELSE <<>>

\* the inner loop of Message.A: the type switch appends v.IP[:] for
\* *ResourceRecordA and *ResourceRecordAAAA, nothing for any other entry
\* (a nil entry included)
RECURSIVE SectionA(_)
SectionA(sec) ==
    IF sec = <<>> THEN <<>>
    ELSE (IF Head(sec).kind \in {"A", "AAAA"} THEN <<Head(sec).IP>> ELSE <<>>)
             \o SectionA(Tail(sec))

\* Message.A
A(msg) ==
    SectionA(Section(msg)[1]) \o SectionA(Section(msg)[2])
        \o SectionA(Section(msg)[3])

\* NewLabel: Length is uint8(len(name))
NewLabel(name) == Label(Len(name) % 256, name)

Dot == 46

\* strings.Split(str, "."): the substrings between the dots
RECURSIVE Split(_)
Split(str) ==
    IF \A k \in 1..Len(str) : str[k] # Dot
    THEN <<str>>
    ELSE LET k == CHOOSE j \in 1..Len(str) :
                      str[j] = Dot /\ \A i \in 1..(j - 1) : str[i] # Dot
         IN  <<SubSeq(str, 1, k - 1)>> \o Split(SubSeq(str, k + 1, Len(str)))

\* NewDomain: a dot is added to a host that does not end in one, and every
\* substring between dots becomes a label
RECURSIVE Labels(_)
Labels(names) ==
    IF names = <<>> THEN <<>>
    ELSE <<NewLabel(Head(names))>> \o Labels(Tail(names))

NewDomain(str) ==
    Labels(Split(IF str # <<>> /\ str[Len(str)] = Dot
                 THEN str ELSE Append(str, Dot)))

-----------------------------------------------------------------------------
(* The messages a caller builds.  Header counts, prefix type tags and      *)
(* prefix lengths are fields the caller sets: nothing ties them to the     *)
(* lists and payloads beside them.                                         *)

MaxAnswer == 2      \* records in a built answer section
MaxOver == 1        \* by how much a built header count exceeds its list
MaxCode == 5        \* the largest response code a built header carries

Root == <<ZeroLabel>>
NameA == <<Label(1, <<97>>), ZeroLabel>>
\* a label whose length tag has both top bits set is written as the two
\* bytes of a compression pointer: to offset 12, the byte after the header,
\* and to offset 16383, past the end of every buffer built here
PtrFirst == <<Label(192, <<12>>)>>
PtrPastEnd == <<Label(255, <<255>>)>>
TypeUnknown == 99

RR(domain, type, length) ==
    [Domain |-> domain, Type |-> type, Class |-> ClassIN, TimeToLive |-> 1,
     Length |-> length]

RecA(domain, type, length, addr) ==
    [kind |-> "A", ResourceRecord |-> RR(domain, type, length), IP |-> addr]

RecDomain(kind, type, length, domain) ==
    [NewReply(kind, RR(Root, type, length))
        EXCEPT ![DomainField(kind)] = domain]

\* the type tag of a variant
KindType(kind) ==
    CASE kind = "A" -> TypeA [] kind = "AAAA" -> TypeAAAA
      [] kind = "SOA" -> TypeSOA [] kind = "MX" -> TypeMX
      [] kind = "HINFO" -> TypeHINFO [] kind = "MINFO" -> TypeMINFO
      [] kind = "NS" -> TypeNS [] kind = "CNAME" -> TypeCNAME
      [] kind = "PTR" -> TypePTR [] kind = "TXT" -> TypeTXT
      [] kind = "MB" -> TypeMB [] kind = "MD" -> TypeMD
      [] kind = "MF" -> TypeMF [] kind = "MG" -> TypeMG
      [] kind = "MR" -> TypeMR

\* one record of every variant, the prefix type tag matching the variant and
\* the prefix length the byte count of the payload
MatchingRecords ==
    {RecA(Root, TypeA, 4, <<1, 2, 3, 4>>),
     [kind |-> "AAAA", ResourceRecord |-> RR(Root, TypeAAAA, 16),
      IP |-> <<32, 1, 0, 0, 0, 0, 0, 0, 0, 0, 0, 0, 0, 0, 0, 1>>],
     [kind |-> "SOA", ResourceRecord |-> RR(Root, TypeSOA, 24),
      Original |-> NameA, Mailbox |-> Root, Serial |-> 1, Refresh |-> 2,
      Retry |-> 3, Expire |-> 4, Minimum |-> 5],
     [kind |-> "MX", ResourceRecord |-> RR(Root, TypeMX, 5),
      Preference |-> 10, Exchange |-> NameA],
     [kind |-> "HINFO", ResourceRecord |-> RR(Root, TypeHINFO, 3),
      CPU |-> Label(1, <<97>>), OS |-> ZeroLabel],
     [kind |-> "MINFO", ResourceRecord |-> RR(Root, TypeMINFO, 4),
      ResponsibleMailbox |-> NameA, ErrorMailbox |-> Root]}
    \cup {RecDomain(k, KindType(k), 3, NameA) : k \in DomainKinds}

\* records whose prefix type tag no variant has, with a prefix length that is
\* or is not the byte count of the payload written, and records whose owner
\* name is written as a pointer
OtherRecords ==
    {RecA(Root, TypeUnknown, 4, <<1, 2, 3, 4>>),
     RecA(Root, TypeUnknown, 2, <<1, 2, 3, 4>>),
     RecA(Root, TypeUnknown, 0, <<1, 2, 3, 4>>),
     RecA(PtrFirst, TypeA, 4, <<1, 2, 3, 4>>),
     RecA(PtrPastEnd, TypeUnknown, 4, <<1, 2, 3, 4>>)}

FirstRecords == MatchingRecords \cup OtherRecords

\* the records that follow the first one of a section
NextRecords ==
    {RecA(Root, TypeA, 4, <<5, 6, 7, 8>>),
     RecA(Root, TypeUnknown, 4, <<9, 9, 9, 9>>)}

RECURSIVE SeqsUpTo(_, _)
SeqsUpTo(S, k) ==
    IF k = 0 THEN {<<>>}
    ELSE LET T == SeqsUpTo(S, k - 1)
         IN  T \cup {Append(t, x) : t \in {u \in T : Len(u) = k - 1}, x \in S}

Answers ==
    {<<>>} \cup {<<r>> \o t : r \in FirstRecords,
                             t \in SeqsUpTo(NextRecords, MaxAnswer - 1)}

Questions ==
    {<<>>, <<NewQuery(NameA, TypeA, ClassIN)>>,
     <<NewQuery(PtrFirst, TypeA, ClassIN)>>,
     <<NewQuery(PtrPastEnd, TypeA, ClassIN)>>}

\* by how much each header count exceeds its list: at most one count does
NoOver == [s \in 1..4 |-> 0]
Overs == {[s \in 1..4 |-> IF s = k THEN o ELSE 0] : k \in 1..4, o \in 1..MaxOver}

BuiltMessage(code, q, an, ns, ar, over) ==
    [Header |-> [ZeroHeader EXCEPT
                    !.ID = 1, !.IsReply = TRUE, !.ResponseCode = code,
                    !.QuestionCount = Len(q) + over[1],
                    !.AnswerCount = Len(an) + over[2],
                    !.AuthorityCount = Len(ns) + over[3],
                    !.AdditionalCount = Len(ar) + over[4]],
     Question |-> q, Answer |-> an, Authority |-> ns, Additional |-> ar]

\* "example.com."
ExampleHost == <<101, 120, 97, 109, 112, 108, 101, Dot, 99, 111, 109, Dot>>

\* one question example.com. type 1 class 1, one answer address record
\* 1.2.3.4 with time-to-live 1, empty authority and additional sections
ExampleMessage ==
    BuiltMessage(0, <<NewQuery(NewDomain(ExampleHost), TypeA, ClassIN)>>,
                 <<RecA(NewDomain(ExampleHost), TypeA, 4, <<1, 2, 3, 4>>)>>,
                 <<>>, <<>>, NoOver)

\* a built message has any response code and counts equal to its lists, or
\* response code 0 and one count above its list
Messages ==
    {ExampleMessage} \cup
    {BuiltMessage(c.code, q, an, ns, ar, c.over) :
        q \in Questions, an \in Answers, ns \in SeqsUpTo(NextRecords, 1),
        ar \in {<<>>, <<RecA(Root, TypeA, 4, <<5, 6, 7, 8>>)>>},
        c \in {[code |-> k, over |-> NoOver] : k \in 0..MaxCode}
              \cup {[code |-> 0, over |-> o] : o \in Overs}}

-----------------------------------------------------------------------------
(* The caller: build a message, marshal it, unmarshal the bytes into a     *)
(* fresh message.                                                          *)

NoLog == [recs |-> <<>>, fail |-> FALSE, read |-> nil]

Init ==
    /\ pc = "built"
    /\ m \in Messages
    /\ data = <<>>
    /\ a = ZeroMessage
    /\ d = <<>>
    /\ seek = TRUE
    /\ pos = 0
    /\ n = 0
    /\ err = nil
    /\ log = NoLog
    /\ host = <<>>
    /\ ip = <<>>
    /\ sock = <<>>
    /\ round = 0

\* data, err := m.MarshalBinary()
Marshal ==
    /\ pc = "built"
    /\ \E x \in {MarshalBinary(m)} :
           /\ data' = x.b
           /\ err' = x.err
           /\ n' = Len(x.b)
           /\ pc' = IF Fatal(x.err) THEN "crashed" ELSE "marshalled"
    /\ UNCHANGED <<m, a, d, seek, pos, log, host, ip, sock, round>>

\* err = a.UnmarshalBinary(data)
Unmarshal ==
    /\ pc = "marshalled"
    /\ \E x \in {UnmarshalBinary(a, data)} :
           /\ a' = x.v
           /\ pos' = x.i
           /\ n' = x.n
           /\ err' = x.err
           /\ log' = [recs |-> x.log, fail |-> x.fail, read |-> x.read]
           /\ pc' = IF Fatal(x.err) THEN "crashed" ELSE "unmarshalled"
    /\ UNCHANGED <<m, data, d, seek, host, ip, sock, round>>

\* ips = a.A()
CallA ==
    /\ pc = "unmarshalled"
    /\ ip' = A(a)
    /\ pc' = "extracted"
    /\ UNCHANGED <<m, data, a, d, seek, pos, n, err, log, host, sock, round>>

Next == Marshal \/ Unmarshal \/ CallA

Spec == Init /\ [][Next]_vars

-----------------------------------------------------------------------------
(* The header alone: a caller's Header written with Header.WriteTo and     *)
(* read into a fresh Header with Header.ReadFrom.  Opcode and ResponseCode *)
(* are uint8 fields: the built headers carry values within and beyond the  *)
(* four bits the wire gives them.                                          *)

Opcodes == {0, 1, 2, 15, 16, 255}
ResponseCodes == {0, 3, 15, 16, 127, 128}
IDs == {1, 258}
Counts == {<<0, 0, 0, 0>>, <<1, 2, 3, 4>>}

Headers ==
    {[ID |-> id, IsReply |-> f[1], Opcode |-> op, IsAuthoritative |-> f[2],
      IsTruncated |-> f[3], IsRecursionDesired |-> f[4],
      IsRecursionAvailable |-> f[5], ResponseCode |-> rc,
      QuestionCount |-> c[1], AnswerCount |-> c[2], AuthorityCount |-> c[3],
      AdditionalCount |-> c[4]] :
        id \in IDs, f \in [1..5 -> BOOLEAN], op \in Opcodes,
        rc \in ResponseCodes, c \in Counts}

InitHeader ==
    /\ pc = "built"
    /\ m \in {[ZeroMessage EXCEPT !.Header = h] : h \in Headers}
    /\ data = <<>>
    /\ a = ZeroMessage
    /\ d = <<>>
    /\ seek = TRUE
    /\ pos = 0
    /\ n = 0
    /\ err = nil
    /\ log = NoLog
    /\ host = <<>>
    /\ ip = <<>>
    /\ sock = <<>>
    /\ round = 0

\* m.Header.WriteTo(w)
HeaderWrite ==
    /\ pc = "built"
    /\ data' = HeaderWriteTo(m.Header)
    /\ n' = 12
    /\ err' = nil
    /\ pc' = "encoded"
    /\ UNCHANGED <<m, a, d, seek, pos, log, host, ip, sock, round>>

\* a.Header.ReadFrom(r), r a reader of the bytes written
HeaderRead ==
    /\ pc = "encoded"
    /\ \E x \in {HeaderReadFrom(a.Header, data, 0)} :
           /\ a' = [a EXCEPT !.Header = x.v]
           /\ pos' = x.i
           /\ n' = x.n
           /\ err' = x.err
           /\ log' = [NoLog EXCEPT !.fail = x.fail, !.read = x.err]
    /\ pc' = "decoded"
    /\ UNCHANGED <<m, data, d, seek, host, ip, sock, round>>

NextHeader == HeaderWrite \/ HeaderRead

SpecHeader == InitHeader /\ [][NextHeader]_vars

-----------------------------------------------------------------------------
(* A name alone: a caller's Domain written with Domain.WriteTo and read    *)
(* with Domain.ReadFrom, from any cursor of the bytes written, through a   *)
(* reader that can or cannot seek.                                         *)

MaxLabels == 3      \* labels of a built Domain
MaxOffset == 4      \* the largest pointer offset and start cursor

\* a literal label of k bytes
Literal(k) == Label(k, [j \in 1..k |-> 97])

\* the terminator, literal labels of 1 and 64 bytes, a label whose length
\* tag has only the top bit set, and labels written as the two bytes of a
\* pointer to offsets 0..MaxOffset
NameLabels ==
    {ZeroLabel, Literal(1), Literal(64), Label(128, <<>>)}
        \cup {Label(192, <<o>>) : o \in 0..MaxOffset}

InitName ==
    /\ pc = "built"
    /\ m \in SeqsUpTo(NameLabels, MaxLabels)
    /\ data = <<>>
    /\ a = ZeroMessage
    /\ d = <<>>
    /\ seek = TRUE
    /\ pos = 0
    /\ n = 0
    /\ err = nil
    /\ log = NoLog
    /\ host = <<>>
    /\ ip = <<>>
    /\ sock = <<>>
    /\ round = 0

\* m.WriteTo(w), m a Domain
DomainWrite ==
    /\ pc = "built"
    /\ data' = DomainWriteTo(m)
    /\ n' = Len(DomainWriteTo(m))
    /\ err' = nil
    /\ pc' = "written"
    /\ UNCHANGED <<m, a, d, seek, pos, log, host, ip, sock, round>>

\* r.Seek(p, io.SeekStart) when the reader can seek, p bytes read otherwise
SeekStart(p, sk) ==
    /\ pc = "written"
    /\ p <= Len(data)
    /\ pos' = p
    /\ seek' = sk
    /\ pc' = "placed"
    /\ UNCHANGED <<m, data, a, d, n, err, log, host, ip, sock, round>>

\* var d Domain; d.ReadFrom(r); log.start is the cursor the call started at
DomainRead ==
    /\ pc = "placed"
    /\ \E x \in {DomainReadFrom(<<>>, data, pos, seek, {})} :
           /\ d' = x.v
           /\ pos' = x.i
           /\ n' = x.n
           /\ err' = x.err
           /\ log' = [recs |-> <<>>, fail |-> x.fail, read |-> x.err,
                      start |-> pos]
           /\ pc' = IF Fatal(x.err) THEN "crashed" ELSE "read"
    /\ UNCHANGED <<m, data, a, seek, host, ip, sock, round>>

NextName ==
    \/ DomainWrite
    \/ \E p \in 0..MaxOffset, sk \in BOOLEAN : SeekStart(p, sk)
    \/ DomainRead

SpecName == InitName /\ [][NextName]_vars

-----------------------------------------------------------------------------
(* The benchmark's caller: build a message, then marshal it and unmarshal  *)
(* the bytes back into the same message, pass after pass; an error ends    *)
(* the loop (b.Fatal).                                                     *)

MaxRounds == 2      \* passes of the loop

\* "aaa.bbb.ccc"
BenchHost == <<97, 97, 97, Dot, 98, 98, 98, Dot, 99, 99, 99>>

\* the benchmark's message: every flag set, opcode 1, every count 1, one
\* question, one A answer, one CNAME variant under a prefix of type A and
\* length 111 as authority, no additional record
BenchmarkMessage ==
    [Header |-> [ID |-> 1, IsReply |-> TRUE, Opcode |-> 1,
                 IsAuthoritative |-> TRUE, IsTruncated |-> TRUE,
                 IsRecursionDesired |-> TRUE, IsRecursionAvailable |-> TRUE,
                 ResponseCode |-> 0, QuestionCount |-> 1, AnswerCount |-> 1,
                 AuthorityCount |-> 1, AdditionalCount |-> 1],
     Question |-> <<NewQuery(NewDomain(BenchHost), TypeA, ClassIN)>>,
     Answer |-> <<RecA(NewDomain(BenchHost), TypeA, 4, <<1, 2, 3, 4>>)>>,
     Authority |->
        <<[kind |-> "CNAME",
           ResourceRecord |-> RR(NewDomain(BenchHost), TypeA, 111),
           Canonical |-> NewDomain(BenchHost)]>>,
     Additional |-> <<>>]

\* the same CNAME variant under a prefix of type CNAME whose length is the
\* byte count of the name
BenchCNAME ==
    [kind |-> "CNAME",
     ResourceRecord |-> RR(NewDomain(BenchHost), TypeCNAME, 13),
     Canonical |-> NewDomain(BenchHost)]

\* the A record of the benchmark under a prefix of a type no variant has
BenchUnknown == RecA(NewDomain(BenchHost), TypeUnknown, 4, <<1, 2, 3, 4>>)

\* the benchmark's message and the messages a caller builds from its parts:
\* flags set or clear, each list empty or as in the benchmark (the authority
\* record also under a prefix of its own type, or of no variant's type), the
\* additional count 0 or 1
BenchMessages ==
    {[Header |-> [BenchmarkMessage.Header EXCEPT
                     !.IsReply = f, !.IsAuthoritative = f, !.IsTruncated = f,
                     !.IsRecursionDesired = f, !.IsRecursionAvailable = f,
                     !.Opcode = IF f THEN 1 ELSE 0,
                     !.QuestionCount = Len(q), !.AnswerCount = Len(an),
                     !.AuthorityCount = Len(ns), !.AdditionalCount = ar],
      Question |-> q, Answer |-> an, Authority |-> ns, Additional |-> <<>>] :
        f \in BOOLEAN, q \in {<<>>, BenchmarkMessage.Question},
        an \in {<<>>, BenchmarkMessage.Answer},
        ns \in {<<>>, BenchmarkMessage.Authority, <<BenchCNAME>>,
                <<BenchUnknown>>},
        ar \in {0, 1}}

InitBench ==
    /\ pc = "built"
    /\ m \in BenchMessages
    /\ data = <<>>
    /\ a = ZeroMessage
    /\ d = <<>>
    /\ seek = TRUE
    /\ pos = 0
    /\ n = 0
    /\ err = nil
    /\ log = NoLog
    /\ host = <<>>
    /\ ip = <<>>
    /\ sock = <<>>
    /\ round = 0

\* data, err := m.MarshalBinary(); if err != nil { b.Fatal(err) }
BenchMarshal ==
    /\ pc \in {"built", "unmarshalled"}
    /\ err = nil
    /\ round < MaxRounds
    /\ \E x \in {MarshalBinary(m)} :
           /\ data' = x.b
           /\ err' = x.err
           /\ n' = Len(x.b)
           /\ pc' = IF Fatal(x.err) THEN "crashed" ELSE "marshalled"
    /\ UNCHANGED <<m, a, d, seek, pos, log, host, ip, sock, round>>

\* err = m.UnmarshalBinary(data); if err != nil { b.Fatal(err) }
BenchUnmarshal ==
    /\ pc = "marshalled"
    /\ \E x \in {UnmarshalBinary(m, data)} :
           /\ m' = x.v
           /\ pos' = x.i
           /\ n' = x.n
           /\ err' = x.err
           /\ log' = [recs |-> x.log, fail |-> x.fail, read |-> x.read]
           /\ pc' = IF Fatal(x.err) THEN "crashed" ELSE "unmarshalled"
    /\ round' = round + 1
    /\ UNCHANGED <<data, a, d, seek, host, ip, sock>>

NextBench == BenchMarshal \/ BenchUnmarshal

SpecBench == InitBench /\ [][NextBench]_vars

-----------------------------------------------------------------------------
(* SpecHost: NewDomain on a host string, the name written by               *)
(* Domain.WriteTo and read back by Domain.ReadFrom.                        *)

MaxSegments == 3    \* substrings between dots in a host string

\* a substring of k bytes without a dot
Segment(k) == [j \in 1..k |-> 97]

\* the substrings joined with dots
RECURSIVE Join(_)
Join(ss) ==
    IF Len(ss) = 1 THEN Segment(ss[1])
    ELSE Segment(ss[1]) \o <<Dot>> \o Join(Tail(ss))

\* host strings of substrings of 0, 1, 63 and 64 bytes, with and without a
\* trailing dot: "", ".", "a..a", "a.a." among them
Hosts ==
    LET H == {Join(ss) : ss \in SeqsUpTo({0, 1, 63, 64}, MaxSegments) \ {<<>>}}
    IN  H \cup {Append(h, Dot) : h \in H}

InitHost ==
    /\ pc = "host"
    /\ host \in Hosts
    /\ m = <<>>
    /\ data = <<>>
    /\ a = ZeroMessage
    /\ d = <<>>
    /\ seek = TRUE
    /\ pos = 0
    /\ n = 0
    /\ err = nil
    /\ log = NoLog
    /\ ip = <<>>
    /\ sock = <<>>
    /\ round = 0

\* m := NewDomain(host)
BuildDomain ==
    /\ pc = "host"
    /\ m' = NewDomain(host)
    /\ pc' = "built"
    /\ UNCHANGED <<data, a, d, seek, pos, n, err, log, host, ip, sock, round>>

NextHost ==
    \/ BuildDomain
    \/ DomainWrite
    \/ \E sk \in BOOLEAN : SeekStart(0, sk)
    \/ DomainRead

SpecHost == InitHost /\ [][NextHost]_vars

-----------------------------------------------------------------------------
(* SpecLookup: LookupIP and the datagrams of its socket.  sock is the      *)
(* datagrams waiting to be read, log.sent the datagrams LookupIP wrote,    *)
(* log.got the datagrams it read, round the datagrams delivered so far.    *)

MaxDelivered == 3   \* datagrams the far end delivers during one lookup

MessageQuery == 0
ErrTimeout == "i/o timeout"

SetID(msg, id, random) ==
    [msg EXCEPT !.Header.ID = IF id > 0 THEN id ELSE random]

SetType(msg, op) == [msg EXCEPT !.Header.Opcode = op]

SetRecursionDesired(msg, yes) ==
    [msg EXCEPT !.Header.IsRecursionDesired = yes]

AddQuery(msg, query) ==
    [msg EXCEPT !.Question = Append(@, query),
                !.Header.QuestionCount = (@ + 1) % 65536]

\* "google.com"
LookupHost == <<103, 111, 111, 103, 108, 101, Dot, 99, 111, 109>>

\* the values uint16(rand.Int()) takes here: a small one and the largest
LookupIDs == {1, 65535}

\* the identifier a datagram starts with
DatagramID(b) == b[1] * 256 + b[2]

\* the reply of the far end to a query datagram: the query's identifier and
\* question, the authoritative flag and response code it chooses, and one
\* address record of the type asked for when the code is 0
ServerReply(query, aa, code) ==
    LET q == UnmarshalBinary(ZeroMessage, query).v
        qu == q.Question[1]
        an == IF code # 0 THEN <<>>
              ELSE IF qu.Type = TypeA
              THEN <<RecA(qu.Domain, TypeA, 4, <<1, 2, 3, 4>>)>>
              ELSE <<[kind |-> "AAAA",
                      ResourceRecord |-> RR(qu.Domain, TypeAAAA, 16),
                      IP |-> <<32, 1, 0, 0, 0, 0, 0, 0,
                               0, 0, 0, 0, 0, 0, 0, 1>>]>>
    IN  [Header |-> [ZeroHeader EXCEPT
                        !.ID = q.Header.ID, !.IsReply = TRUE,
                        !.IsAuthoritative = aa,
                        !.IsRecursionDesired = TRUE,
                        !.IsRecursionAvailable = TRUE,
                        !.ResponseCode = code,
                        !.QuestionCount = 1, !.AnswerCount = Len(an)],
         Question |-> <<qu>>, Answer |-> an,
         Authority |-> <<>>, Additional |-> <<>>]

InitLookup ==
    /\ pc = "start"
    /\ host = LookupHost
    /\ m = ZeroMessage
    /\ a = ZeroMessage
    /\ data = <<>>
    /\ d = <<>>
    /\ seek = TRUE
    /\ pos = 0
    /\ n = 0
    /\ err = nil
    /\ log = [sent |-> <<>>, got |-> <<>>]
    /\ ip = <<>>
    /\ sock = <<>>
    /\ round = 0

\* m.SetID(0) ... m.AddQuery(...); m.SendUDP(c)
LookupSend ==
    /\ pc = "start"
    /\ \E random \in LookupIDs :
       \E q \in {AddQuery(SetRecursionDesired(
                     SetType(SetID(m, 0, random), MessageQuery), TRUE),
                     NewQuery(NewDomain(host), TypeA, ClassIN))} :
           /\ m' = q
           /\ data' = MarshalBinary(q).b
           /\ log' = [log EXCEPT !.sent = Append(@, MarshalBinary(q).b)]
    /\ pc' = "sent1"
    /\ UNCHANGED <<a, d, seek, pos, n, err, host, ip, sock, round>>

\* the far end answers a query it was sent; it may answer one twice and in
\* any order
Deliver ==
    /\ pc \in {"sent1", "read1", "sent2"}
    /\ round < MaxDelivered
    /\ \E k \in 1..Len(log.sent), aa \in BOOLEAN, code \in {0, 3} :
           sock' = Append(sock,
                          MarshalBinary(ServerReply(log.sent[k], aa, code)).b)
    /\ round' = round + 1
    /\ UNCHANGED <<pc, m, data, a, d, seek, pos, n, err, log, host, ip>>

\* err = a.ReadUDP(c); ips = a.A()
LookupRead ==
    /\ pc = "sent1"
    /\ sock # <<>>
    /\ \E x \in {UnmarshalBinary(a, Head(sock))} :
           /\ a' = x.v
           /\ err' = x.err
           /\ ip' = IF x.err = nil THEN A(x.v) ELSE ip
           /\ pc' = IF x.err = nil THEN "read1" ELSE "done"
    /\ sock' = Tail(sock)
    /\ log' = [log EXCEPT !.got = Append(@, Head(sock))]
    /\ UNCHANGED <<m, data, d, seek, pos, n, host, round>>

\* m.Question[0] = NewQuery(NewDomain(host), TypeAAAA, ClassIN); m.ID++;
\* m.SendUDP(c)
LookupSendNext ==
    /\ pc = "read1"
    /\ \E q \in {[m EXCEPT
                    !.Question[1] = NewQuery(NewDomain(host), TypeAAAA,
                                             ClassIN),
                    !.Header.ID = (@ + 1) % 65536]} :
           /\ m' = q
           /\ data' = MarshalBinary(q).b
           /\ log' = [log EXCEPT !.sent = Append(@, MarshalBinary(q).b)]
    /\ pc' = "sent2"
    /\ UNCHANGED <<a, d, seek, pos, n, err, host, ip, sock, round>>

\* err = a.ReadUDP(c); ips = append(ips, a.A()...)
LookupReadNext ==
    /\ pc = "sent2"
    /\ sock # <<>>
    /\ \E x \in {UnmarshalBinary(a, Head(sock))} :
           /\ a' = x.v
           /\ err' = x.err
           /\ ip' = IF x.err = nil THEN ip \o A(x.v) ELSE ip
    /\ pc' = "done"
    /\ sock' = Tail(sock)
    /\ log' = [log EXCEPT !.got = Append(@, Head(sock))]
    /\ UNCHANGED <<m, data, d, seek, pos, n, host, round>>

\* the deadline set on the connection passes with no datagram to read
LookupTimeout ==
    /\ pc \in {"sent1", "sent2"}
    /\ sock = <<>>
    /\ err' = ErrTimeout
    /\ pc' = "done"
    /\ UNCHANGED <<m, data, a, d, seek, pos, n, log, host, ip, sock, round>>

NextLookup ==
    \/ LookupSend
    \/ Deliver
    \/ LookupRead
    \/ LookupSendNext
    \/ LookupReadNext
    \/ LookupTimeout

SpecLookup == InitLookup /\ [][NextLookup]_vars

-----------------------------------------------------------------------------
(* Properties of the header codec, under SpecHeader.                       *)

\* bit k of byte b
BitOf(b, k) == (b \div (2 ^ k)) % 2

\* C7: every pair of control bytes (data[3], data[4]) decodes into a fresh
\* header by the stated layout: is-reply = bit 7 of byte 1, opcode = bits
\* 3..6, authoritative = bit 2, truncated = bit 1, recursion-desired = bit 0,
\* recursion-available = bit 7 of byte 2, response code = bits 0..3 of byte 2
\* only.
HeaderBitLayout ==
    pc = "decoded" =>
        /\ a.Header.IsReply = (BitOf(data[3], 7) = 1)
        /\ a.Header.Opcode = (data[3] \div 8) % 16
        /\ a.Header.IsAuthoritative = (BitOf(data[3], 2) = 1)
        /\ a.Header.IsTruncated = (BitOf(data[3], 1) = 1)
        /\ a.Header.IsRecursionDesired = (BitOf(data[3], 0) = 1)
        /\ a.Header.IsRecursionAvailable = (BitOf(data[4], 7) = 1)
        /\ a.Header.ResponseCode = data[4] % 16

FieldNames == DOMAIN ZeroHeader

\* the values the built headers give field f
FieldValues(f) ==
    CASE f = "ID" -> IDs
      [] f = "Opcode" -> Opcodes
      [] f = "ResponseCode" -> ResponseCodes
      [] f \in {"QuestionCount", "AnswerCount", "AuthorityCount",
                "AdditionalCount"} -> 0..4
      [] OTHER -> BOOLEAN

\* the headers that differ from h in exactly one field
OneFieldChanged(h) ==
    UNION {{[h EXCEPT ![f] = v] : v \in FieldValues(f) \ {h[f]}} :
             f \in FieldNames}

\* what a fresh header holds after reading the 12 bytes h is written as
Reread(h) == HeaderReadFrom(ZeroHeader, HeaderWriteTo(h), 0).v

\* the opcode and the response code fit the four bits the wire gives each
InWireRange(h) == h.Opcode <= 15 /\ h.ResponseCode <= 15

\* h written and read back gives h, and every header that differs from h in
\* one field reads back different from h's reading in that field alone
RoundTripIsolated(h, S) ==
    /\ err = nil
    /\ n = 12
    /\ a.Header = h
    /\ \A g \in S :
          LET r == Reread(g)
          IN  \A f \in FieldNames : (r[f] # a.Header[f]) <=> (g[f] # h[f])

-----------------------------------------------------------------------------
(* Properties of the name codec, under SpecName.                           *)

Returned == pc \in {"read", "crashed"}

\* the cursor of the first length byte with both top bits set that a name
\* starting at cursor p of s reaches through literal labels; -1 if none
RECURSIVE PointerAt(_, _)
PointerAt(s, p) ==
    IF p >= Len(s) THEN -1
    ELSE IF s[p + 1] >= 192 THEN p
    ELSE IF s[p + 1] = 0 \/ s[p + 1] >= 64 \/ p + 1 + s[p + 1] > Len(s) THEN -1
    ELSE PointerAt(s, p + 1 + s[p + 1])

\* the name found at cursor p of s: its literal labels up to the terminator,
\* every pointer replaced by the name found at its 14-bit offset; <<>> when
\* no name is found there (the bytes end, a tag has one top bit set, or the
\* pointers form a cycle)
RECURSIVE NameAt(_, _, _)
NameAt(s, p, seen) ==
    IF p \in seen \/ p >= Len(s) THEN <<>>
    ELSE IF s[p + 1] = 0 THEN <<ZeroLabel>>
    ELSE IF s[p + 1] >= 192
    THEN IF p + 2 > Len(s) THEN <<>>
         ELSE NameAt(s, (s[p + 1] - 192) * 256 + s[p + 2], seen \cup {p})
    ELSE IF s[p + 1] >= 64 \/ p + 1 + s[p + 1] > Len(s) THEN <<>>
    ELSE LET rest == NameAt(s, p + 1 + s[p + 1], seen \cup {p})
         IN  IF rest = <<>> THEN <<>>
             ELSE <<Label(s[p + 1], SubSeq(s, p + 2, p + 1 + s[p + 1]))>>
                      \o rest

\* C2: when Domain.ReadFrom on a seekable source reads a length byte with
\* both top bits set at cursor p, the decoded name is the literal labels
\* read before it followed by the name found at the 14-bit offset, and the
\* call returns with the cursor at p + 2; nested pointers included.
PointerFollowed ==
    Returned /\ seek /\ PointerAt(data, log.start) >= 0
             /\ NameAt(data, log.start, {}) # <<>> =>
        /\ pc = "read"
        /\ err = nil
        /\ d = NameAt(data, log.start, {})
        /\ pos = PointerAt(data, log.start) + 2

\* C3: decoding a name whose pointers reference their own offset or form a
\* cycle ends and returns a compression-loop error: no name decode recurses
\* without bound.
CompressionLoopEnds ==
    Returned => pc = "read" /\ err # StackOverflow

\* C5: a length byte with exactly one of its two top bits set (64..191) makes
\* the decode fail with a format error, and no decoded name holds a label
\* with such a length tag.
MalformedTagRejected ==
    Returned =>
        /\ log.start < Len(data) /\ data[log.start + 1] \in 64..191 =>
              err = "format error"
        /\ \A k \in 1..Len(d) : d[k].Length \notin 64..191

-----------------------------------------------------------------------------
(* Properties of the message codec, under Spec.                            *)

Unmarshalled == pc \in {"unmarshalled", "crashed"} /\ data # <<>>

\* a literal name: labels of 1..63 bytes, each tag the byte count of its
\* label, then one terminator
LiteralName(dom) ==
    /\ dom # <<>>
    /\ dom[Len(dom)] = ZeroLabel
    /\ \A k \in 1..(Len(dom) - 1) :
          dom[k].Length \in 1..63 /\ Len(dom[k].Name) = dom[k].Length

\* the names of a record's payload
PayloadDomains(rec) ==
    CASE rec.kind \in DomainKinds -> {rec[DomainField(rec.kind)]}
      [] rec.kind = "SOA" -> {rec.Original, rec.Mailbox}
      [] rec.kind = "MX" -> {rec.Exchange}
      [] rec.kind = "MINFO" -> {rec.ResponsibleMailbox, rec.ErrorMailbox}
      [] OTHER -> {}

\* a record of the closed variant set, its prefix type tag matching the
\* variant, its names literal
ClosedSetRecord(rec) ==
    /\ rec # NilReply
    /\ rec.ResourceRecord.Type = KindType(rec.kind)
    /\ LiteralName(rec.ResourceRecord.Domain)
    /\ \A dom \in PayloadDomains(rec) : LiteralName(dom)

ClosedSetMessage(msg) ==
    /\ msg.Header.QuestionCount = Len(msg.Question)
    /\ msg.Header.AnswerCount = Len(msg.Answer)
    /\ msg.Header.AuthorityCount = Len(msg.Authority)
    /\ msg.Header.AdditionalCount = Len(msg.Additional)
    /\ \A k \in 1..Len(msg.Question) : LiteralName(msg.Question[k].Domain)
    /\ \A k \in 1..Len(msg.Answer) : ClosedSetRecord(msg.Answer[k])
    /\ \A k \in 1..Len(msg.Authority) : ClosedSetRecord(msg.Authority[k])
    /\ \A k \in 1..Len(msg.Additional) : ClosedSetRecord(msg.Additional[k])

\* C1: for every message whose header counts equal its section lengths,
\* whose names are literal and whose records are variants of the closed set
\* with matching type tags, decoding the encoded bytes into a fresh message
\* succeeds and yields a message equal to it field for field.
RoundTrip ==
    Unmarshalled /\ ClosedSetMessage(m) => log.read = nil /\ a = m

\* the records read, section after section
RECURSIVE Flat(_)
Flat(ls) == IF ls = <<>> THEN <<>> ELSE Head(ls) \o Flat(Tail(ls))

RecognizedTypes ==
    {TypeA, TypeNS, TypeCNAME, TypeSOA, TypePTR, TypeMX, TypeTXT, TypeAAAA}

DeclaredRecords(h) == h.AnswerCount + h.AuthorityCount + h.AdditionalCount

\* C4: a record whose prefix was read and whose type tag is not a recognized
\* one is skipped by its declared length: if Length bytes remain after the
\* prefix no error is raised, the cursor ends Length bytes after the prefix,
\* and the next declared record of the message is read from that cursor (a
\* decode that has no further record ends there).
UnknownSkippedByLength ==
    Unmarshalled =>
        LET rs == Flat(log.recs)
        IN  \A k \in 1..Len(rs) :
                /\ rs[k].prefix = nil
                /\ rs[k].Type \notin RecognizedTypes
                /\ rs[k].body + rs[k].Length <= Len(data)
                => /\ rs[k].err = nil
                   /\ rs[k].end = rs[k].body + rs[k].Length
                   /\ IF k < DeclaredRecords(a.Header)
                      THEN Len(rs) > k /\ rs[k + 1].start = rs[k].end
                      ELSE log.read = nil /\ pos = rs[k].end

\* C4 witness: a record of unknown type and length 4 was skipped and the
\* answer record after it was read from the next byte and holds its address
UnknownSkippedWitness ==
    /\ pc = "unmarshalled"
    /\ log.read = nil
    /\ Len(log.recs) = 3
    /\ Len(log.recs[1]) = 2
    /\ log.recs[1][1].Type = TypeUnknown
    /\ log.recs[1][1].Length = 4
    /\ log.recs[1][1].skipped
    /\ log.recs[1][2].start = log.recs[1][1].body + 4
    /\ a.Answer[1] = NilReply
    /\ a.Answer[2].kind = "A"
    /\ a.Answer[2].IP = <<5, 6, 7, 8>>

\* the counts a buffer's header declares
DeclaredQueries(s) == BigEndian16(SubSeq(s, 5, 6))
DeclaredReplies(s) ==
    BigEndian16(SubSeq(s, 7, 8)) + BigEndian16(SubSeq(s, 9, 10))
        + BigEndian16(SubSeq(s, 11, 12))

\* the bytes after the header cannot hold the declared entries: a question
\* takes 5 bytes or more, a record 11 or more
OverDeclared(s) ==
    /\ Len(s) >= 12
    /\ 5 * DeclaredQueries(s) + 11 * DeclaredReplies(s) > Len(s) - 12

\* C6: for every buffer whose header declares more entries than the
\* remaining bytes contain, Message decode returns a short-read error, reads
\* nothing past the end and never returns success.
OverDeclaredFailsShort ==
    Unmarshalled /\ OverDeclared(data) =>
        /\ pc = "unmarshalled"
        /\ log.read \in {EOF, ErrUnexpectedEOF}
        /\ pos <= Len(data)

\* C9: whenever a read performed during a message decode fails, the decode
\* returns a non-nil error.
ReadFailureSurfaces ==
    Unmarshalled /\ log.fail => log.read # nil /\ err # nil

\* C10: for well-formed message bytes UnmarshalBinary succeeds whatever the
\* response code; the status comes from the separate check alone: no error
\* for code 0, the matching error for codes 1..5.
StatusSeparateFromDecode ==
    Unmarshalled /\ log.read = nil /\ ~log.fail =>
        /\ err = nil
        /\ (a.Header.ResponseCode = 0) = (Error(a) = nil)

\* the entries of the three sections, answer first
Entries(msg) == msg.Answer \o msg.Authority \o msg.Additional

IsAddress(rec) == rec.kind \in {"A", "AAAA"}

\* the bytes of the address payload of a record read with tag TypeA (4) or
\* TypeAAAA (16)
WireAddress(rec) ==
    SubSeq(data, rec.body + 1,
           rec.body + (IF rec.Type = TypeA THEN 4 ELSE 16))

IsWireAddress(rec) == rec.Type \in {TypeA, TypeAAAA}

\* C11: on a decoded message A() returns the address values of its 4-byte
\* and 16-byte address records and nothing else, answer section first, then
\* authority, then additional, in record order; after a successful decode
\* these are the address bytes of the records tagged A or AAAA on the wire;
\* and for the message with one question example.com. type 1 class 1 and one
\* answer 1.2.3.4, encode then decode gives A() = [1.2.3.4] and the question
\* name labels "example", "com", "".
AddressExtraction ==
    pc = "extracted" =>
        /\ LET recs == SelectSeq(Entries(a), IsAddress)
           IN  ip = [k \in 1..Len(recs) |-> recs[k].IP]
        /\ log.read = nil =>
              LET recs == SelectSeq(Flat(log.recs), IsWireAddress)
              IN  ip = [k \in 1..Len(recs) |-> WireAddress(recs[k])]
        /\ m = ExampleMessage =>
              /\ err = nil
              /\ ip = <<<<1, 2, 3, 4>>>>
              /\ Name(a.Question[1].Domain) =
                     <<<<101, 120, 97, 109, 112, 108, 101>>,
                       <<99, 111, 109>>, <<>>>>

\* C11 witness: A() has returned the addresses of an answer, an authority
\* and an additional record of a message whose answer section also holds a
\* skipped record of unknown type
AddressExtractionWitness ==
    /\ pc = "extracted"
    /\ log.read = nil
    /\ Len(a.Answer) = 2
    /\ a.Answer[2] = NilReply
    /\ ip = <<<<1, 2, 3, 4>>, <<5, 6, 7, 8>>, <<5, 6, 7, 8>>>>

\* C12: on a reader without Seek, a pointer with a non-zero offset read at
\* any label position of a name makes Domain.ReadFrom return the structural
\* error (not success, not a short-read error); a name of literal labels
\* alone decodes without error.
NonSeekablePointerFails ==
    Returned /\ ~seek =>
        LET at == PointerAt(data, log.start)
        IN  /\ /\ at >= 0
               /\ at + 2 <= Len(data)
               /\ (data[at + 1] - 192) * 256 + data[at + 2] # 0
               => /\ pc = "read"
                  /\ err = ErrCantSeek
                  /\ err \notin {nil, EOF, ErrUnexpectedEOF}
            /\ at = -1 /\ NameAt(data, log.start, {}) # <<>> =>
                  /\ pc = "read"
                  /\ err = nil
                  /\ d = NameAt(data, log.start, {})

\* C12 witness: a reader without Seek has read a literal label and then a
\* pointer, and the call has returned the structural error
NonSeekableWitness ==
    /\ pc = "read"
    /\ ~seek
    /\ PointerAt(data, log.start) > log.start
    /\ err = ErrCantSeek

\* C13: for a caller-built message with response code 0, as the benchmark's
\* message, MarshalBinary returns no error and UnmarshalBinary of the bytes
\* back into the same message returns no error, on every pass of the loop.
MarshalUnmarshalSucceeds ==
    pc # "crashed" /\ err = nil

\* the cursor after the name that starts at cursor p of s: after its
\* terminator, or after the two bytes of its first pointer; -1 if the bytes
\* hold no such name
RECURSIVE NameEndAt(_, _)
NameEndAt(s, p) ==
    IF p >= Len(s) THEN -1
    ELSE IF s[p + 1] = 0 THEN p + 1
    ELSE IF s[p + 1] >= 192 THEN (IF p + 2 <= Len(s) THEN p + 2 ELSE -1)
    ELSE IF s[p + 1] >= 64 \/ p + 1 + s[p + 1] > Len(s) THEN -1
    ELSE NameEndAt(s, p + 1 + s[p + 1])

\* the payload at cursor p is a 16-bit preference and one name: the decoded
\* entry rec holds them and the payload decode ended at cursor e
IsMXShape(rec, p, e) ==
    /\ rec.kind = "MX"
    /\ rec.Preference = BigEndianInt16(SubSeq(data, p + 1, p + 2))
    /\ rec.Exchange = NameAt(data, p + 2, {})
    /\ e = NameEndAt(data, p + 2)

\* the payload at cursor p is two names and five 32-bit integers
IsSOAShape(rec, p, e) ==
    LET q == NameEndAt(data, p)
        u == NameEndAt(data, q)
    IN  /\ rec.kind = "SOA"
        /\ rec.Original = NameAt(data, p, {})
        /\ rec.Mailbox = NameAt(data, q, {})
        /\ rec.Serial = BigEndian32(SubSeq(data, u + 1, u + 4))
        /\ rec.Refresh = BigEndian32(SubSeq(data, u + 5, u + 8))
        /\ rec.Retry = BigEndian32(SubSeq(data, u + 9, u + 12))
        /\ rec.Expire = BigEndian32(SubSeq(data, u + 13, u + 16))
        /\ rec.Minimum = BigEndian32(SubSeq(data, u + 17, u + 20))
        /\ e = u + 20

\* the bytes at cursor p hold a payload of the shape
HoldsMX(p) == p + 2 <= Len(data) /\ NameAt(data, p + 2, {}) # <<>>

HoldsSOA(p) ==
    /\ NameAt(data, p, {}) # <<>>
    /\ NameAt(data, NameEndAt(data, p), {}) # <<>>
    /\ NameEndAt(data, NameEndAt(data, p)) + 20 <= Len(data)

\* C14: a mail-exchange record's payload is read as a 16-bit preference and
\* one name, a start-of-authority record's as two names and five 32-bit
\* integers; the decoded record holds those values and the cursor ends right
\* after the bytes of that shape, where the following record is read.
PayloadShapes ==
    Unmarshalled =>
        LET rs == Flat(log.recs)
        IN  \A k \in 1..Len(rs) :
              /\ rs[k].prefix = nil /\ rs[k].Type = TypeMX
                    /\ HoldsMX(rs[k].body)
                 => /\ rs[k].err = nil
                    /\ IsMXShape(Entries(a)[k], rs[k].body, rs[k].end)
                    /\ k < Len(rs) => rs[k + 1].start = rs[k].end
              /\ rs[k].prefix = nil /\ rs[k].Type = TypeSOA
                    /\ HoldsSOA(rs[k].body)
                 => /\ rs[k].err = nil
                    /\ IsSOAShape(Entries(a)[k], rs[k].body, rs[k].end)
                    /\ k < Len(rs) => rs[k + 1].start = rs[k].end

\* C15: after a successful decode every entry of the answer, authority and
\* additional sections is a record value: an entry whose type tag was not
\* recognized carries the decoded prefix and the declared payload length and
\* is never an absent entry, so the decoded message is encoded without
\* failure.
OpaqueRetained ==
    /\ pc # "crashed"
    /\ pc = "unmarshalled" /\ err = nil =>
          LET rs == Flat(log.recs)
          IN  \A k \in 1..Len(rs) :
                  /\ Entries(m)[k] # NilReply
                  /\ Entries(m)[k].ResourceRecord.Type = rs[k].Type
                  /\ Entries(m)[k].ResourceRecord.Length = rs[k].Length

\* C17: every length byte with both top bits set is a pointer, offset 0
\* included: no decoded name contains a label whose length tag has both top
\* bits set, and a call that met a pointer at cursor p and returned has the
\* cursor at p + 2: no label is read from the outer position after it.
PointerNeverLabel ==
    pc = "read" =>
        /\ \A k \in 1..Len(d) : d[k].Length < 192
        /\ PointerAt(data, log.start) >= 0 =>
               pos = PointerAt(data, log.start) + 2

\* C16: for every host string NewDomain returns a name whose last label is
\* the zero-length terminator, which has no other zero-length label, and in
\* which every label's length tag is the byte count of its payload with both
\* top bits clear; the name written and read back is the same label sequence.
BuilderWellFormed ==
    pc # "host" =>
        /\ m # <<>>
        /\ m[Len(m)] = ZeroLabel
        /\ \A k \in 1..(Len(m) - 1) : m[k].Length # 0
        /\ \A k \in 1..Len(m) :
               m[k].Length = Len(m[k].Name) /\ m[k].Length < 64
        /\ Returned => pc = "read" /\ err = nil /\ d = m

\* C18: the result of a decode depends only on the bytes: the reply message
\* LookupIP decodes every datagram into holds, after each read, the header
\* and sections a fresh message holds after decoding the same datagram.
DecodeDependsOnBytesOnly ==
    pc \in {"read1", "sent2", "done"} /\ log.got # <<>> =>
        a = UnmarshalBinary(ZeroMessage, log.got[Len(log.got)]).v

\* C19: LookupIP sends the type 1 query, then the type 28 query with the
\* next identifier (mod 2^16); when it returns addresses, the two datagrams
\* they were taken from carry the identifiers of the first and of the second
\* query, in that order, and the result is the addresses of the first
\* followed by the addresses of the second.
ReplyPairing ==
    /\ Len(log.sent) = 2 =>
          /\ DatagramID(log.sent[2]) = (DatagramID(log.sent[1]) + 1) % 65536
          /\ UnmarshalBinary(ZeroMessage, log.sent[1]).v.Question[1].Type
                 = TypeA
          /\ UnmarshalBinary(ZeroMessage, log.sent[2]).v.Question[1].Type
                 = TypeAAAA
    /\ pc = "done" /\ err = nil =>
          /\ Len(log.sent) = 2 /\ Len(log.got) = 2
          /\ DatagramID(log.got[1]) = DatagramID(log.sent[1])
          /\ DatagramID(log.got[2]) = DatagramID(log.sent[2])
          /\ ip = A(UnmarshalBinary(ZeroMessage, log.got[1]).v)
                     \o A(UnmarshalBinary(ZeroMessage, log.got[2]).v)

=============================================================================
